---- MODULE Spec2Model ----
(***************************************************************************)
(* Model of src/frontend/frontend_modified.py: the Streamlit dashboard     *)
(* script (one run of the script per session load / interaction), the      *)
(* on-disk shapefile cache of load_shape_data_file shared by all           *)
(* sessions, and the join / colour-scale / statistics pipeline.            *)
(***************************************************************************)
EXTENDS Integers, Sequences, FiniteSets

VARIABLES
    remoteZones,    \* zone ids (LocationID column) inside the remote archive's shapefile
    zip,            \* <data_dir>/taxi_zones.zip: "absent", "partial", "good", "corrupt"
    shp,            \* <data_dir>/taxi_zones/taxi_zones.shp: "absent", "partial", "good"
    pc,             \* per session: position in the script
    err,            \* per session: the uncaught exception that ended the run, or "none"
    run,            \* per session: number of the current script run (call)
    body,           \* per session: response.content held by the current call, or "none"
    callReqs,       \* per session: HTTP requests made by the current call
    callExtracts,   \* per session: extractions started by the current call
    readPartial,    \* per session: the current call read a half-extracted shapefile
    afterOK,        \* per session: the current call began after some call had returned
    loadedOnce,     \* some call of load_shape_data_file has returned successfully
    zipWrites,      \* number of times the archive was written to disk
    extracts,       \* number of extractions started
    runFault,       \* the remote archive or a read API misbehaved during session 1's current run
    session_state,  \* st.session_state of session 1: map_created, map_obj
    predictions,    \* session 1: table returned by fetch_next_hour_predictions
    selected,       \* session 1: value of the borough selectbox
    filtered,       \* session 1: filtered_predictions
    sidebar,        \* session 1: lines written to the sidebar in this run
    progress,       \* session 1: progress bar, in quarters
    shown,          \* session 1: which of "table", "map", "metrics", "charts" this run displayed
    tableShown,     \* session 1: rows given to st.dataframe
    mapShown,       \* session 1: map given to st_folium
    metricsShown,   \* session 1: the three st.metric values
    charts          \* session 1: locations given to st.plotly_chart, in order

vars == <<remoteZones, zip, shp, pc, err, run, body, callReqs, callExtracts, readPartial,
          afterOK, loadedOnce, zipWrites, extracts, runFault, session_state,
          predictions, selected, filtered, sidebar, progress, shown, tableShown,
          mapShown, metricsShown, charts>>

diskVars == <<zip, shp, zipWrites, extracts>>
dashVars == <<session_state, predictions, selected, filtered, sidebar, progress,
              shown, tableShown, mapShown, metricsShown, charts>>

----------------------------------------------------------------------------
(* Bounds of the model *)

MaxRuns == 2        \* script runs (calls) per session
MaxBase == 2        \* rows of the block a large prediction table repeats
MaxRep == 6         \* the block is taken once, MaxRep - 1 times or MaxRep times
MaxSmall == 1       \* rows of a prediction table in the multi-run specifications
MaxDemand == 2      \* predicted_demand values are 0..MaxDemand

(* Program constants *)

TopN == 10          \* head(10)
NColors == 7        \* hues handed to LinearColormap

Sessions == {"s1", "s2"}
Dash == "s1"        \* the session whose dashboard is modelled in full
ZoneIds == {3, 5, 6}
Demands == 0..MaxDemand
NaN == <<>>         \* a float cell is NaN or <<v>>

location_mapping ==
    [i \in {1, 2, 3, 4, 5, 6, 7, 8, 9, 10, 11, 12, 13, 14, 15, 132} |->
        CASE i = 1 -> "EWR"
          [] i \in {2, 7, 8, 9, 10, 15, 132} -> "Queens"
          [] i = 3 -> "Bronx"
          [] i \in {4, 12, 13} -> "Manhattan"
          [] i \in {5, 6} -> "Staten Island"
          [] OTHER -> "Brooklyn"]

Boroughs == {location_mapping[i] : i \in DOMAIN location_mapping}

location_ids(b) == {i \in DOMAIN location_mapping : location_mapping[i] = b}

----------------------------------------------------------------------------
(* Helpers on sequences and sets *)

Range(s) == {s[i] : i \in DOMAIN s}

Min2(a, b) == IF a <= b THEN a ELSE b

SetMin(S) == CHOOSE x \in S : \A y \in S : x <= y
SetMax(S) == CHOOSE x \in S : \A y \in S : x >= y

RECURSIVE SortedSeq(_)
SortedSeq(S) == IF S = {} THEN <<>> ELSE <<SetMin(S)>> \o SortedSeq(S \ {SetMin(S)})

RECURSIVE Rep(_, _)
Rep(s, k) == IF k = 0 THEN <<>> ELSE s \o Rep(s, k - 1)

Prefixes(s) == {SubSeq(s, 1, n) : n \in 1..Len(s)}

(* A prediction table is a DataFrame: rows carry their index label. *)
MkTable(cells) == [i \in 1..Len(cells) |-> [idx |-> i, id |-> cells[i][1], d |-> cells[i][2]]]

Cells == ZoneIds \X Demands
Blocks(n) == UNION {[1..k -> Cells] : k \in 0..n}
Tables(maxBase, maxRep) ==
    {MkTable(Rep(b, k)) : b \in Blocks(maxBase), k \in {1, maxRep - 1, maxRep} \ {0}}

ZoneSeqs == {SortedSeq(S) : S \in (SUBSET ZoneIds) \ {{}}}

----------------------------------------------------------------------------
(* load_shape_data_file, one action per file-system or network operation.  *)
(* `outcomes` is what the remote end may answer: "ok" (200, a zip          *)
(* archive), "corrupt" (200, a body that is no zip archive), "fail"        *)
(* (a RequestException: unreachable, timeout, non-success status).         *)

callVars == <<callReqs, callExtracts, readPartial, afterOK>>

Raise(s, e) == /\ pc' = [pc EXCEPT ![s] = "failed"]
               /\ err' = [err EXCEPT ![s] = e]

Fault(s, bad) == runFault' = (runFault \/ (s = Dash /\ bad))

\* the check of line 48 left out: every call downloads
CheckZipNoCache(s) ==
    /\ pc[s] = "checkzip"
    /\ pc' = [pc EXCEPT ![s] = "get"]
    /\ UNCHANGED <<remoteZones, zip, shp, err, run, body, callReqs, callExtracts,
                   readPartial, afterOK, loadedOnce, zipWrites, extracts, runFault>>
    /\ UNCHANGED dashVars

\* line 48: if not zip_path.exists()
CheckZip(s) ==
    /\ pc[s] = "checkzip"
    /\ pc' = [pc EXCEPT ![s] = IF zip = "absent" THEN "get" ELSE "checkshp"]
    /\ UNCHANGED <<remoteZones, zip, shp, err, run, body, callReqs, callExtracts,
                   readPartial, afterOK, loadedOnce, zipWrites, extracts, runFault>>
    /\ UNCHANGED dashVars

\* lines 50-51, 54-55: requests.get, raise_for_status
Get(s, outcomes) ==
    /\ pc[s] = "get"
    /\ callReqs' = [callReqs EXCEPT ![s] = @ + 1]
    /\ \E o \in outcomes :
         /\ Fault(s, o # "ok")
         /\ IF o = "fail"
              THEN Raise(s, "download") /\ UNCHANGED body
              ELSE /\ pc' = [pc EXCEPT ![s] = "open"]
                   /\ body' = [body EXCEPT ![s] = IF o = "ok" THEN "good" ELSE "corrupt"]
                   /\ UNCHANGED err
    /\ UNCHANGED <<remoteZones, zip, shp, run, callExtracts, readPartial, afterOK,
                   loadedOnce, zipWrites, extracts>>
    /\ UNCHANGED dashVars

\* line 52: open(zip_path, "wb") creates or truncates the file
OpenZip(s) ==
    /\ pc[s] = "open"
    /\ zip' = "partial"
    /\ pc' = [pc EXCEPT ![s] = "write"]
    /\ UNCHANGED <<remoteZones, shp, err, run, body, loadedOnce, zipWrites, extracts,
                   runFault>>
    /\ UNCHANGED callVars
    /\ UNCHANGED dashVars

\* line 53: f.write(response.content), and the file is closed
WriteZip(s) ==
    /\ pc[s] = "write"
    /\ zip' = body[s]
    /\ zipWrites' = zipWrites + 1
    /\ body' = [body EXCEPT ![s] = "none"]
    /\ pc' = [pc EXCEPT ![s] = "checkshp"]
    /\ UNCHANGED <<remoteZones, shp, err, run, loadedOnce, extracts, runFault>>
    /\ UNCHANGED callVars
    /\ UNCHANGED dashVars

\* line 57: if not shapefile_path.exists()
CheckShp(s) ==
    /\ pc[s] = "checkshp"
    /\ pc' = [pc EXCEPT ![s] = IF shp = "absent" THEN "extract" ELSE "read"]
    /\ UNCHANGED <<remoteZones, zip, shp, err, run, body, loadedOnce, zipWrites,
                   extracts, runFault>>
    /\ UNCHANGED callVars
    /\ UNCHANGED dashVars

\* lines 59-62: zipfile.ZipFile(zip_path) on a truncated or non-zip file raises
\* BadZipFile; otherwise extractall starts creating the shapefile's files
ExtractBegin(s) ==
    /\ pc[s] = "extract"
    /\ IF zip = "good"
         THEN /\ shp' = "partial"
              /\ extracts' = extracts + 1
              /\ callExtracts' = [callExtracts EXCEPT ![s] = @ + 1]
              /\ pc' = [pc EXCEPT ![s] = "extracting"]
              /\ UNCHANGED err
         ELSE /\ Raise(s, "extract")
              /\ UNCHANGED <<shp, extracts, callExtracts>>
    /\ UNCHANGED <<remoteZones, zip, run, body, callReqs, readPartial, afterOK,
                   loadedOnce, zipWrites, runFault>>
    /\ UNCHANGED dashVars

Extracting == {s \in Sessions : pc[s] = "extracting"}

\* line 60: extractall finishes, or fails when the archive was truncated under it
ExtractEnd(s) ==
    /\ pc[s] = "extracting"
    /\ \E o \in IF zip = "good" THEN {"ok"} ELSE {"ok", "fail"} :
         IF o = "ok"
           THEN /\ shp' = IF Extracting = {s} THEN "good" ELSE "partial"
                /\ pc' = [pc EXCEPT ![s] = "read"]
                /\ UNCHANGED err
           ELSE /\ Raise(s, "extract")
                /\ UNCHANGED shp
    /\ UNCHANGED <<remoteZones, zip, run, body, loadedOnce, zipWrites, extracts,
                   runFault>>
    /\ UNCHANGED callVars
    /\ UNCHANGED dashVars

\* line 64: gpd.read_file(shapefile_path).to_crs(...); reading files that another
\* session is still extracting either fails or yields truncated data
ReadShape(s) ==
    /\ pc[s] = "read"
    /\ \E o \in IF shp = "good" THEN {"ok"} ELSE {"ok", "fail"} :
         IF o = "ok"
           THEN /\ pc' = [pc EXCEPT ![s] = "loaded"]
                /\ readPartial' = [readPartial EXCEPT ![s] = (shp # "good")]
                /\ loadedOnce' = TRUE
                /\ UNCHANGED err
           ELSE /\ Raise(s, "read")
                /\ UNCHANGED <<readPartial, loadedOnce>>
    /\ UNCHANGED <<remoteZones, zip, shp, run, body, callReqs, callExtracts, afterOK,
                   zipWrites, extracts, runFault>>
    /\ UNCHANGED dashVars

Loader(s, outcomes) ==
    \/ CheckZip(s)
    \/ Get(s, outcomes)
    \/ OpenZip(s)
    \/ WriteZip(s)
    \/ CheckShp(s)
    \/ ExtractBegin(s)
    \/ ExtractEnd(s)
    \/ ReadShape(s)

\* a further call of load_shape_data_file by a session that only loads the shapefile
Recall(s) ==
    /\ pc[s] \in {"loaded", "failed"}
    /\ run[s] < MaxRuns
    /\ run' = [run EXCEPT ![s] = @ + 1]
    /\ pc' = [pc EXCEPT ![s] = "checkzip"]
    /\ err' = [err EXCEPT ![s] = "none"]
    /\ body' = [body EXCEPT ![s] = "none"]
    /\ callReqs' = [callReqs EXCEPT ![s] = 0]
    /\ callExtracts' = [callExtracts EXCEPT ![s] = 0]
    /\ readPartial' = [readPartial EXCEPT ![s] = FALSE]
    /\ afterOK' = [afterOK EXCEPT ![s] = loadedOnce]
    /\ UNCHANGED <<remoteZones, loadedOnce, runFault>>
    /\ UNCHANGED diskVars
    /\ UNCHANGED dashVars

----------------------------------------------------------------------------
(* The data pipeline of the script, as operators *)

\* the filter of line 102 left out
FilterRowsAll(preds, ids) == preds

\* line 102: predictions[predictions["pickup_location_id"].isin(location_ids)]
FilterRows(preds, ids) == SelectSeq(preds, LAMBDA r : r.id \in ids)

\* sort_values("predicted_demand", ascending=False): rows of equal demand keep their order
RECURSIVE InsertDesc(_, _)
InsertDesc(sorted, r) ==
    IF sorted = <<>> THEN <<r>>
    ELSE IF Head(sorted).d >= r.d THEN <<Head(sorted)>> \o InsertDesc(Tail(sorted), r)
    ELSE <<r>> \o sorted

RECURSIVE SortDesc(_)
SortDesc(rows) ==
    IF rows = <<>> THEN <<>>
    ELSE InsertDesc(SortDesc(SubSeq(rows, 1, Len(rows) - 1)), rows[Len(rows)])

\* .head(10)
HeadN(rows) == SubSeq(rows, 1, Min2(TopN, Len(rows)))

\* head(10) without the sort
Top10Unsorted(rows) == HeadN(rows)

\* lines 106, 164: the ten largest rows of the filtered predictions
Top10(rows) == HeadN(SortDesc(rows))

\* lines 114-119: zones.merge(predictions, how="left"): per zone, in zone order, one
\* row per matching prediction row, or one row with a missing demand
RECURSIVE Merge(_, _)
Merge(zones, preds) ==
    IF zones = <<>> THEN <<>>
    ELSE LET z == Head(zones)
             m == SelectSeq(preds, LAMBDA r : r.id = z)
         IN (IF m = <<>> THEN <<[zone |-> z, d |-> NaN]>>
             ELSE [i \in 1..Len(m) |-> [zone |-> z, d |-> <<m[i].d>>]])
            \o Merge(Tail(zones), preds)

\* the fillna of line 120 left out
FillnaMissing(rows) == rows

\* line 120: .fillna(0)
Fillna(rows) == [i \in 1..Len(rows) |-> IF rows[i].d = NaN THEN [rows[i] EXCEPT !.d = <<0>>]
                                        ELSE rows[i]]

Join(zones, preds) == Fillna(Merge(zones, preds))

\* the predicted_demand column of the joined zones, and of a prediction table
JoinedColumn(rows) == [i \in 1..Len(rows) |-> rows[i].d]
DemandColumn(rows) == [i \in 1..Len(rows) |-> <<rows[i].d>>]

Numbers(col) == {col[i][1] : i \in {j \in 1..Len(col) : col[j] # NaN}}

\* Series.min() / Series.max(): missing values are skipped, NaN when nothing is left
ColMin(col) == IF Numbers(col) = {} THEN NaN ELSE <<SetMin(Numbers(col))>>
ColMax(col) == IF Numbers(col) = {} THEN NaN ELSE <<SetMax(Numbers(col))>>

RECURSIVE ColSum(_)
ColSum(col) == IF col = <<>> THEN 0 ELSE Head(col)[1] + ColSum(Tail(col))

\* Series.mean(): sum / count as the fraction <<sum, count>>, NaN on an empty column
ColMean(col) == IF col = <<>> THEN NaN ELSE <<ColSum(col), Len(col)>>

\* f"{x:.0f}": round half to even; NaN prints as nan
RoundHalfEven(a, n) ==
    LET q == a \div n
        r == a % n
    IN IF 2 * r < n THEN q
       ELSE IF 2 * r > n THEN q + 1
       ELSE IF q % 2 = 0 THEN q ELSE q + 1

Format0f(x) == IF x = NaN THEN NaN
               ELSE IF Len(x) = 1 THEN x
               ELSE <<RoundHalfEven(x[1], x[2])>>

\* lines 157-161
Metrics(rows) == [avg |-> Format0f(ColMean(DemandColumn(rows))),
                  max |-> Format0f(ColMax(DemandColumn(rows))),
                  min |-> Format0f(ColMin(DemandColumn(rows)))]

\* lines 124-128: LinearColormap(colors, vmin, vmax); its index is
\* vmin + (vmax - vmin) * i / (n - 1), kept here multiplied by n - 1
ColorIndex(vmin, vmax) ==
    [i \in 1..NColors |-> (NColors - 1) * vmin[1] + (vmax[1] - vmin[1]) * (i - 1)]

ColorError == <<>>  \* evaluating the colour raised

\* colormap(x): the first hue at or below the domain, the last at or above it, else
\* the blend <<i, num, den>> of hues i and i + 1 at fraction num / den
ColorAt(vmin, vmax, x) ==
    IF x = NaN \/ vmin = NaN \/ vmax = NaN THEN ColorError
    ELSE LET index == ColorIndex(vmin, vmax)
             x6 == (NColors - 1) * x[1]
         IN IF x6 <= index[1] THEN <<1, 0, 1>>
            ELSE IF x6 >= index[NColors] THEN <<NColors, 0, 1>>
            ELSE LET i == Cardinality({k \in 1..NColors : index[k] < x6})
                     den == index[i + 1] - index[i]
                 IN IF den = 0 THEN ColorError ELSE <<i, x6 - index[i], den>>

\* lines 131-133: style_function(feature)["fillColor"]
style_function(vmin, vmax, row) == ColorAt(vmin, vmax, row.d)

\* lines 113-143: the map object create_taxi_map builds from the zones it read
MapOf(zones, preds, n, sel) ==
    LET rows == Join(zones, preds)
        vmin == ColMin(JoinedColumn(rows))
        vmax == ColMax(JoinedColumn(rows))
    IN [run |-> n, sel |-> sel, rows |-> rows, vmin |-> vmin, vmax |-> vmax,
        fills |-> [i \in 1..Len(rows) |-> style_function(vmin, vmax, rows[i])]]

NoMap == [run |-> 0, sel |-> "none", rows |-> <<>>, vmin |-> NaN, vmax |-> NaN,
          fills |-> <<>>]
NoMetrics == [avg |-> NaN, max |-> NaN, min |-> NaN]

----------------------------------------------------------------------------
(* The script of the dashboard session, lines 70-170.  An uncaught          *)
(* exception ends the run; what the run displayed before it stays.         *)

loadVars == <<remoteZones, zip, shp, run, body, callReqs, callExtracts, readPartial,
              afterOK, loadedOnce, zipWrites, extracts>>

\* lines 78-79, then 81-84: load_batch_of_features_from_store
FetchFeatures(apis) ==
    /\ pc[Dash] = "loaded"
    /\ \E o \in apis :
         /\ Fault(Dash, o # "ok")
         /\ IF o = "ok"
              THEN /\ sidebar' = sidebar \o <<"Shape file was downloaded",
                                             "Inference features fetched">>
                   /\ progress' = 2
                   /\ pc' = [pc EXCEPT ![Dash] = "predict"]
                   /\ UNCHANGED err
              ELSE /\ sidebar' = Append(sidebar, "Shape file was downloaded")
                   /\ progress' = 1
                   /\ Raise(Dash, "features")
    /\ UNCHANGED loadVars
    /\ UNCHANGED <<session_state, predictions, selected, filtered, shown, tableShown,
                   mapShown, metricsShown, charts>>

\* lines 86-89: fetch_next_hour_predictions
FetchPredictions(tables, apis) ==
    /\ pc[Dash] = "predict"
    /\ \E o \in apis :
         /\ Fault(Dash, o # "ok")
         /\ IF o = "ok"
              THEN /\ \E t \in tables : predictions' = t
                   /\ sidebar' = Append(sidebar, "Model predictions loaded")
                   /\ progress' = 3
                   /\ pc' = [pc EXCEPT ![Dash] = "select"]
                   /\ UNCHANGED err
              ELSE /\ Raise(Dash, "predictions")
                   /\ UNCHANGED <<predictions, sidebar, progress>>
    /\ UNCHANGED loadVars
    /\ UNCHANGED <<session_state, selected, filtered, shown, tableShown, mapShown,
                   metricsShown, charts>>

\* lines 94-106: the selectbox, the filter and the table
SelectBorough ==
    /\ pc[Dash] = "select"
    /\ \E b \in Boroughs :
         /\ selected' = b
         /\ filtered' = FilterRows(predictions, location_ids(b))
    /\ tableShown' = Top10(filtered')
    /\ shown' = shown \cup {"table"}
    /\ pc' = [pc EXCEPT ![Dash] = "map"]
    /\ UNCHANGED loadVars
    /\ UNCHANGED <<err, runFault, session_state, predictions, sidebar, progress,
                   mapShown, metricsShown, charts>>

\* what gpd.read_file(shapefile_path) of line 113 can return: the zones of the
\* shapefile or, while another session extracts over it, the first few of them;
\* the empty sequence stands for read_file raising
ZonesOnDisk == IF shp = "good" THEN {remoteZones} ELSE Prefixes(remoteZones) \cup {<<>>}

\* lines 111-143: create_taxi_map(shapefile_path, filtered_predictions)
create_taxi_map ==
    /\ pc[Dash] = "map"
    /\ \E zones \in ZonesOnDisk :
         LET m == MapOf(zones, filtered, run[Dash], selected)
         IN IF zones = <<>> \/ ColorError \in Range(m.fills)
              THEN /\ Raise(Dash, "build")
                   /\ UNCHANGED session_state
              ELSE /\ session_state' = [map_created |-> TRUE, map_obj |-> m]
                   /\ pc' = [pc EXCEPT ![Dash] = "display"]
                   /\ UNCHANGED err
    /\ UNCHANGED loadVars
    /\ UNCHANGED <<runFault, predictions, selected, filtered, sidebar, progress, shown,
                   tableShown, mapShown, metricsShown, charts>>

\* the script with the map cached: built only when the session holds none
BuildMapCached ==
    IF pc[Dash] = "map" /\ session_state.map_created
      THEN /\ pc' = [pc EXCEPT ![Dash] = "display"]
           /\ UNCHANGED loadVars
           /\ UNCHANGED <<err, runFault, session_state, predictions, selected, filtered,
                          sidebar, progress, shown, tableShown, mapShown, metricsShown,
                          charts>>
      ELSE create_taxi_map

\* line 145: map_obj = create_taxi_map(...), on every run
BuildMap == create_taxi_map

\* lines 147-151
DisplayMap ==
    /\ pc[Dash] = "display"
    /\ IF session_state.map_created
         THEN /\ mapShown' = session_state.map_obj
              /\ shown' = shown \cup {"map"}
         ELSE UNCHANGED <<mapShown, shown>>
    /\ sidebar' = Append(sidebar, "Finished plotting taxi rides demand")
    /\ progress' = 4
    /\ pc' = [pc EXCEPT ![Dash] = "stats"]
    /\ UNCHANGED loadVars
    /\ UNCHANGED <<err, runFault, session_state, predictions, selected, filtered,
                   tableShown, metricsShown, charts>>

\* lines 154-161
ShowStatistics ==
    /\ pc[Dash] = "stats"
    /\ metricsShown' = Metrics(filtered)
    /\ shown' = shown \cup {"metrics"}
    /\ pc' = [pc EXCEPT ![Dash] = "plots"]
    /\ UNCHANGED loadVars
    /\ UNCHANGED <<err, runFault, session_state, predictions, selected, filtered,
                   sidebar, progress, tableShown, mapShown, charts>>

\* lines 164-170: one chart per location of top10
PlotTop10 ==
    /\ pc[Dash] = "plots"
    /\ charts' = [i \in 1..Len(Top10(filtered)) |-> Top10(filtered)[i].id]
    /\ pc' = [pc EXCEPT ![Dash] = "done"]
    /\ UNCHANGED loadVars
    /\ UNCHANGED <<err, runFault, session_state, predictions, selected, filtered,
                   sidebar, progress, shown, tableShown, mapShown, metricsShown>>

\* a reload or a widget interaction runs the script again; session_state is kept
Rerun ==
    /\ pc[Dash] \in {"done", "failed"}
    /\ run[Dash] < MaxRuns
    /\ run' = [run EXCEPT ![Dash] = @ + 1]
    /\ pc' = [pc EXCEPT ![Dash] = "checkzip"]
    /\ err' = [err EXCEPT ![Dash] = "none"]
    /\ body' = [body EXCEPT ![Dash] = "none"]
    /\ callReqs' = [callReqs EXCEPT ![Dash] = 0]
    /\ callExtracts' = [callExtracts EXCEPT ![Dash] = 0]
    /\ readPartial' = [readPartial EXCEPT ![Dash] = FALSE]
    /\ afterOK' = [afterOK EXCEPT ![Dash] = loadedOnce]
    /\ runFault' = FALSE
    /\ predictions' = <<>>
    /\ selected' = "none"
    /\ filtered' = <<>>
    /\ sidebar' = <<>>
    /\ progress' = 0
    /\ shown' = {}
    /\ tableShown' = <<>>
    /\ mapShown' = NoMap
    /\ metricsShown' = NoMetrics
    /\ charts' = <<>>
    /\ UNCHANGED <<remoteZones, loadedOnce, session_state>>
    /\ UNCHANGED diskVars

Script(tables, outcomes) ==
    \/ Loader(Dash, outcomes)
    \/ FetchFeatures(outcomes \ {"corrupt"})
    \/ FetchPredictions(tables, outcomes \ {"corrupt"})
    \/ SelectBorough
    \/ BuildMap
    \/ DisplayMap
    \/ ShowStatistics
    \/ PlotTop10

----------------------------------------------------------------------------
(* Specifications *)

InitWith(zoneChoices) ==
    /\ remoteZones \in zoneChoices
    /\ zip = "absent"
    /\ shp = "absent"
    /\ pc = [s \in Sessions |-> "checkzip"]
    /\ err = [s \in Sessions |-> "none"]
    /\ run = [s \in Sessions |-> 1]
    /\ body = [s \in Sessions |-> "none"]
    /\ callReqs = [s \in Sessions |-> 0]
    /\ callExtracts = [s \in Sessions |-> 0]
    /\ readPartial = [s \in Sessions |-> FALSE]
    /\ afterOK = [s \in Sessions |-> FALSE]
    /\ loadedOnce = FALSE
    /\ zipWrites = 0
    /\ extracts = 0
    /\ runFault = FALSE
    /\ session_state = [map_created |-> FALSE, map_obj |-> NoMap]
    /\ predictions = <<>>
    /\ selected = "none"
    /\ filtered = <<>>
    /\ sidebar = <<>>
    /\ progress = 0
    /\ shown = {}
    /\ tableShown = <<>>
    /\ mapShown = NoMap
    /\ metricsShown = NoMetrics
    /\ charts = <<>>

AllZones == SortedSeq(ZoneIds)
Healthy == {"ok"}
Outcomes == {"ok", "corrupt", "fail"}
SmallTables == Tables(MaxSmall, 1)
LargeTables == Tables(MaxBase, MaxRep)
FewTables == {MkTable(<<>>), MkTable(<<<<3, 1>>>>), MkTable(<<<<5, 1>>, <<6, 0>>, <<5, 0>>>>)}

\* one session, run after run, against a remote end that may misbehave
Init == InitWith({AllZones})
Next == Script(SmallTables, Outcomes) \/ Rerun
Spec == Init /\ [][Next]_vars

\* two sessions calling load_shape_data_file on the same empty directory
NextCache == \E s \in Sessions : Loader(s, Healthy) \/ Recall(s)
SpecCache == Init /\ [][NextCache]_vars

\* the dashboard session beside a second session that loads the shapefile
NextShared == Script(FewTables, Outcomes) \/ Rerun \/ Loader("s2", Healthy)
SpecShared == Init /\ [][NextShared]_vars

\* one healthy run of the script over every zone set and prediction table
InitData == InitWith(ZoneSeqs)
NextData == Script(LargeTables, Healthy)
SpecData == InitData /\ [][NextData]_vars

----------------------------------------------------------------------------
(* Properties *)

Built == {"display", "stats", "plots", "done"}
MapBuilt == pc[Dash] \in Built
StoredRows == session_state.map_obj.rows

\* rows of a table with zone id z
RowsOf(table, z) == {i \in 1..Len(table) : table[i].id = z}

\* rows of the predictions that belong to the selected borough
Matching == {i \in 1..Len(predictions) : predictions[i].id \in location_ids(selected)}

RECURSIVE SumOver(_)
SumOver(I) == IF I = {} THEN 0
              ELSE LET i == CHOOSE j \in I : TRUE IN predictions[i].d + SumOver(I \ {i})

\* C1: the join of create_taxi_map yields exactly one row per input zone and no
\* other row, whatever the prediction table handed to it (several rows per zone id,
\* ids of no zone): a zone with a matching prediction carries that demand, a zone
\* without one carries 0.
C1_OneRowPerZone ==
    MapBuilt =>
        /\ Len(StoredRows) = Len(remoteZones)
        /\ \A i \in 1..Len(StoredRows) :
             /\ StoredRows[i].zone = remoteZones[i]
             /\ IF RowsOf(filtered, remoteZones[i]) = {}
                  THEN StoredRows[i].d = <<0>>
                  ELSE \E k \in RowsOf(filtered, remoteZones[i]) :
                         StoredRows[i].d = <<filtered[k].d>>

\* C2: in a sequence of calls of load_shape_data_file on one directory, a call that
\* begins after some call has returned makes no HTTP request and starts no
\* extraction, and the archive is written and extracted at most once.
C2_CachedOnce ==
    /\ afterOK[Dash] => (callReqs[Dash] = 0 /\ callExtracts[Dash] = 0)
    /\ zipWrites <= 1
    /\ extracts <= 1

C2_Witness == afterOK[Dash] /\ pc[Dash] = "loaded" /\ run[Dash] > 1

\* C3: with two sessions in load_shape_data_file on the same empty directory and a
\* healthy remote end, no session fails and none reads a half-written archive or a
\* half-extracted shapefile.
C3_BenignRace == \A s \in Sessions : err[s] = "none" /\ ~readPartial[s]

\* C4: a run that the shapefile load, the feature fetch or the prediction fetch
\* ended has displayed no table, map, metric or chart, and has left no stage output
\* of the earlier steps (sidebar lines, progress) on the page.
C4_NoPartialDashboard ==
    (pc[Dash] = "failed" /\ err[Dash] \in {"download", "extract", "read", "features",
                                           "predictions"})
        => /\ shown = {}
           /\ charts = <<>>
           /\ sidebar = <<>>
           /\ progress = 0

ExampleTable == MkTable(<<<<1, 50>>, <<2, 200>>, <<3, 10>>>>)

\* C5: the table holds exactly the prediction rows of the selected borough, by
\* demand descending, cut to the first 10; mean, max and min are those of all the
\* borough's rows; one chart is drawn per row of the table.  The example of the
\* specification: {1:50, 2:200, 3:10} filtered to {1, 3} gives [1 (50), 3 (10)],
\* mean 30, max 50, min 10.
C5_TableStatsCharts ==
    /\ pc[Dash] = "done" =>
        LET n == Cardinality(Matching)
            S == SumOver(Matching)
            D == {predictions[i].d : i \in Matching}
            T == Range(tableShown)
        IN /\ shown = {"table", "map", "metrics"}
           /\ T \subseteq {predictions[i] : i \in Matching}
           /\ Cardinality(T) = Len(tableShown)
           /\ Len(tableShown) = Min2(TopN, n)
           /\ \A i, j \in 1..Len(tableShown) : i < j => tableShown[i].d >= tableShown[j].d
           /\ \A k \in Matching : predictions[k] \notin T =>
                \A i \in 1..Len(tableShown) : tableShown[i].d >= predictions[k].d
           /\ IF n = 0 THEN metricsShown = NoMetrics
              ELSE /\ metricsShown.max = <<SetMax(D)>>
                   /\ metricsShown.min = <<SetMin(D)>>
                   /\ \E q \in 0..MaxDemand :
                        /\ metricsShown.avg = <<q>>
                        /\ 2 * (q * n - S) <= n
                        /\ 2 * (S - q * n) <= n
                        /\ (2 * (q * n - S) = n \/ 2 * (S - q * n) = n) => q % 2 = 0
           /\ charts = [i \in 1..Len(tableShown) |-> tableShown[i].id]
           /\ Len(charts) <= TopN
    /\ Top10(FilterRows(ExampleTable, {1, 3})) = <<ExampleTable[1], ExampleTable[3]>>
    /\ Metrics(FilterRows(ExampleTable, {1, 3})) = [avg |-> <<30>>, max |-> <<50>>, min |-> <<10>>]

\* more than ten rows of the borough, of which the table shows ten in an order the
\* prediction table did not have, and a mean that is not the mean of those ten
C5_Witness ==
    /\ pc[Dash] = "done"
    /\ Cardinality(Matching) > TopN
    /\ Len(charts) = TopN
    /\ tableShown # HeadN(filtered)
    /\ metricsShown.avg # Metrics(tableShown).avg

Degenerate(rows) == \A i, j \in 1..Len(rows) : rows[i].d = rows[j].d

\* C6: when every joined zone has the same predicted_demand, building the colour
\* scale and styling every zone raises nothing, and all zones get one fill colour.
C6_DegenerateScale ==
    /\ (err[Dash] = "build" /\ shp = "good") => ~Degenerate(Join(remoteZones, filtered))
    /\ (MapBuilt /\ Degenerate(StoredRows)) =>
         LET m == session_state.map_obj
         IN /\ m.vmin = m.vmax
            /\ Len(m.fills) = Len(m.rows)
            /\ \A i, j \in 1..Len(m.fills) : m.fills[i] = m.fills[j] /\ m.fills[i] # ColorError

C6_Witness ==
    /\ MapBuilt
    /\ Len(StoredRows) > 1
    /\ Degenerate(StoredRows)
    /\ StoredRows[1].d = <<MaxDemand>>

\* C7: when no prediction row belongs to the selected borough the run completes:
\* empty table, NaN statistics, no chart, and a map with every zone at demand 0
\* in one colour.
C7_EmptyBorough ==
    (selected # "none" /\ Matching = {}) =>
        /\ pc[Dash] # "failed"
        /\ tableShown = <<>>
        /\ pc[Dash] = "done" =>
             /\ shown = {"table", "map", "metrics"}
             /\ metricsShown = NoMetrics
             /\ charts = <<>>
             /\ [i \in 1..Len(mapShown.rows) |-> mapShown.rows[i].zone] = remoteZones
             /\ \A i \in 1..Len(mapShown.rows) :
                  mapShown.rows[i].d = <<0>> /\ mapShown.fills[i] = <<1, 0, 1>>

C7_Witness ==
    /\ pc[Dash] = "done"
    /\ predictions # <<>>
    /\ Matching = {}
    /\ Len(mapShown.rows) > 1

\* C8: once the session holds a map built for the selected borough, a later run
\* with that selection shows the stored map and does not build another.
C8_MapReused ==
    [][(pc[Dash] = "map" /\ session_state.map_created
          /\ session_state.map_obj.sel = selected)
        => session_state' = session_state]_vars

\* C9: a run fails only when the remote archive or a read API misbehaved during
\* that run; nothing an earlier failed run left behind makes a healthy run fail.
C9_ReloadRecovers == pc[Dash] = "failed" => runFault

\* C10: a map on display was built in the current run from the predictions of the
\* selected borough; after a failed build no map is on display.
C10_FreshMap ==
    /\ "map" \in shown =>
         /\ mapShown.run = run[Dash]
         /\ mapShown.sel = selected
         /\ \A i \in 1..Len(mapShown.rows) :
              LET z == mapShown.rows[i].zone
                  M == {k \in Matching : predictions[k].id = z}
              IN IF M = {} THEN mapShown.rows[i].d = <<0>>
                 ELSE \E k \in M : mapShown.rows[i].d = <<predictions[k].d>>
    /\ err[Dash] = "build" => "map" \notin shown

\* the build failed while the session still held the map of another borough
C10_Witness ==
    /\ err[Dash] = "build"
    /\ session_state.map_created
    /\ session_state.map_obj.sel # selected
    /\ "map" \notin shown

====
